---- MODULE Spec2Model ----
(***************************************************************************)
(* Countable.js: live paragraph-, word- and character-counting on HTML     *)
(* elements.  The module models                                            *)
(*   - the counter (_decode, _count) as operators over sequences of UTF-16 *)
(*     code units, and                                                     *)
(*   - the registry of live elements (_liveElements) together with the     *)
(*     event listeners of each element, driven by Countable.live,          *)
(*     Countable.die, Countable.once, Countable.enabled and by input       *)
(*     events of the host page.                                            *)
(* JavaScript runs a call to completion, but a callback is user code that  *)
(* may call back into Countable: an operation is therefore cut into steps  *)
(* at each callback invocation, and between the invocation and the return  *)
(* of the callback a reentrant Countable.die may run.                      *)
(* Three specifications: Spec is the page with reentrant calls of          *)
(* Countable.die, SequentialSpec the page whose callbacks never call back  *)
(* into Countable, and CountSpec the counter applied to a range of texts   *)
(* and options through Countable.once.                                     *)
(***************************************************************************)
EXTENDS Integers, Sequences, FiniteSets, TLC

(***************************************************************************)
(* Bounds of the model.                                                    *)
(***************************************************************************)
\* Handler closures that exist at once: those the registry, an element or a
\* dispatch in progress still refers to.
MaxHandlers == 2
\* The length of the texts over all the code units of Units.
MaxLen == 3
\* The length of the texts made of surrogate halves and spaces.
MaxSurrogateLen == 6
\* The length of the texts made of the letters a, b and line feeds.
MaxBreakLen == 6

(***************************************************************************)
(* UTF-16 code units and the character classes of the regular expressions. *)
(***************************************************************************)
LF == 10
CR == 13

\* ECMAScript WhiteSpace + LineTerminator: the class \s and what trim() removes.
WhiteSpaceUnits ==
    {9, 10, 11, 12, 13, 32, 160, 5760, 8232, 8233, 8239, 8287, 12288, 65279}
        \cup (8192 .. 8202)

IsSpace(c) == c \in WhiteSpaceUnits

\* The class ['";:,.?¿\-!¡] of the word count.
PunctuationUnits == {39, 34, 59, 58, 44, 46, 63, 191, 45, 33, 161}

\* [a-z] under the i flag.
IsLetter(c) == (c \in 97 .. 122) \/ (c \in 65 .. 90)

\* x & y on 16-bit values.
RECURSIVE BitAnd(_, _)
BitAnd(x, y) ==
    IF x = 0 \/ y = 0 THEN 0
    ELSE ((x % 2) * (y % 2)) + 2 * BitAnd(x \div 2, y \div 2)

\* The replacement without the flag g: only the first unit in X is removed.
Remove_First(s, class) ==
    IF \E i \in 1 .. Len(s) : s[i] \in class
    THEN LET i == CHOOSE k \in 1 .. Len(s) :
                     /\ s[k] \in class
                     /\ \A j \in 1 .. k - 1 : s[j] \notin class
         IN SubSeq(s, 1, i - 1) \o SubSeq(s, i + 1, Len(s))
    ELSE s

\* s.replace(/[X]/g, '') for a character class X: s without the units in X.
RECURSIVE Remove(_, _)
Remove(s, class) ==
    IF s = << >> THEN << >>
    ELSE IF Head(s) \in class THEN Remove(Tail(s), class)
         ELSE << Head(s) >> \o Remove(Tail(s), class)

\* String.prototype.trim
RECURSIVE TrimLeft(_)
TrimLeft(s) ==
    IF s # << >> /\ IsSpace(Head(s)) THEN TrimLeft(Tail(s)) ELSE s

RECURSIVE TrimRight(_)
TrimRight(s) ==
    IF s # << >> /\ IsSpace(s[Len(s)])
    THEN TrimRight(SubSeq(s, 1, Len(s) - 1))
    ELSE s

\* A trim that removes leading whitespace only.
trim_LeftOnly(s) == TrimLeft(s)

trim(s) == TrimRight(TrimLeft(s))

\* (s.match(/X{min,}/g) || []).length for a character class X (the units in
\* class when inside, the units not in class otherwise): the number of maximal
\* runs of units of X that are at least min long.
RECURSIVE RunsFrom(_, _, _, _, _, _)
RunsFrom(s, class, inside, min, i, run) ==
    IF i > Len(s) THEN (IF run >= min THEN 1 ELSE 0)
    ELSE IF (s[i] \in class) = inside
         THEN RunsFrom(s, class, inside, min, i + 1, run + 1)
         ELSE (IF run >= min THEN 1 ELSE 0)
                  + RunsFrom(s, class, inside, min, i + 1, 0)

\* The match with the quantifier + where {min,} is meant: every run counts.
MatchRuns_NoMin(s, class, inside, min) == RunsFrom(s, class, inside, 1, 1, 0)

MatchRuns(s, class, inside, min) == RunsFrom(s, class, inside, min, 1, 0)

\* ucs2decode: the code points of a sequence of code units.
RECURSIVE DecodeFrom(_, _)
DecodeFrom(string, counter) ==
    IF counter > Len(string) THEN << >>
    ELSE LET value == string[counter]
         IN IF BitAnd(value, 63488) = 55296 /\ counter < Len(string)
            THEN LET extra == string[counter + 1]
                 IN IF BitAnd(extra, 64512) = 56320
                    THEN << (BitAnd(value, 1023) * 1024) + BitAnd(extra, 1023) + 65536 >>
                             \o DecodeFrom(string, counter + 2)
                    ELSE << value, extra >> \o DecodeFrom(string, counter + 2)
            ELSE << value >> \o DecodeFrom(string, counter + 1)

_decode(string) == DecodeFrom(string, 1)

\* original.replace(/<\/?[a-z][^>]*>/gi, ''): the end of the tag that starts
\* at position i, or 0 when none starts there.
RECURSIVE TagClose(_, _)
TagClose(s, j) ==
    IF j > Len(s) THEN 0
    ELSE IF s[j] = 62 THEN j
         ELSE TagClose(s, j + 1)

TagEnd(s, i) ==
    IF i > Len(s) \/ s[i] # 60 THEN 0
    ELSE LET n == IF i + 1 <= Len(s) /\ s[i + 1] = 47 THEN i + 2 ELSE i + 1
         IN IF n <= Len(s) /\ IsLetter(s[n]) THEN TagClose(s, n + 1) ELSE 0

RECURSIVE StripFrom(_, _)
StripFrom(s, i) ==
    IF i > Len(s) THEN << >>
    ELSE IF TagEnd(s, i) # 0 THEN StripFrom(s, TagEnd(s, i) + 1)
         ELSE << s[i] >> \o StripFrom(s, i + 1)

stripTags(s) == StripFrom(s, 1)

\* _extendDefaults: an options object is the set of its <<key, value>> pairs;
\* only the keys of defaults are copied.
OwnValue(options, prop, default) ==
    IF \E kv \in options : kv[1] = prop
    THEN (CHOOSE kv \in options : kv[1] = prop)[2]
    ELSE default

_extendDefaults(options) ==
    [hardReturns |-> OwnValue(options, "hardReturns", FALSE),
     stripTags   |-> OwnValue(options, "stripTags", FALSE)]

\* _count with the field all taken of the trimmed text.
_count_AllOfTrimmed(text, options) ==
    LET original == IF options.stripTags THEN stripTags(text) ELSE text
        trimmed  == trim(original)
    IN [paragraphs |-> IF trimmed # << >>
                       THEN MatchRuns(trimmed, {LF}, TRUE,
                                      IF options.hardReturns THEN 2 ELSE 1) + 1
                       ELSE 0,
        words      |-> IF trimmed # << >>
                       THEN MatchRuns(Remove(trimmed, PunctuationUnits),
                                      WhiteSpaceUnits, FALSE, 1)
                       ELSE 0,
        characters |-> IF trimmed # << >>
                       THEN Len(_decode(Remove(trimmed, WhiteSpaceUnits)))
                       ELSE 0,
        all        |-> Len(_decode(Remove(trimmed, {LF, CR})))]

\* _count on the text of an element.
_count(text, options) ==
    LET original == IF options.stripTags THEN stripTags(text) ELSE text
        trimmed  == trim(original)
    IN [paragraphs |-> IF trimmed # << >>
                       THEN MatchRuns(trimmed, {LF}, TRUE,
                                      IF options.hardReturns THEN 2 ELSE 1) + 1
                       ELSE 0,
        words      |-> IF trimmed # << >>
                       THEN MatchRuns(Remove(trimmed, PunctuationUnits),
                                      WhiteSpaceUnits, FALSE, 1)
                       ELSE 0,
        characters |-> IF trimmed # << >>
                       THEN Len(_decode(Remove(trimmed, WhiteSpaceUnits)))
                       ELSE 0,
        all        |-> Len(_decode(Remove(original, {LF, CR})))]

(***************************************************************************)
(* The page and the values a caller may pass.                              *)
(***************************************************************************)
\* The elements of the document, in document order.
DocumentElements == << "a", "b" >>
Elements == {DocumentElements[i] : i \in 1 .. Len(DocumentElements)}

\* JavaScript values passed as arguments, and typeof of each.
StringValues    == {"#a", "#b", "textarea", ".none"}
FunctionValues  == {"cb1"}
UndefinedValue  == "undefined"
\* A value whose conversion to a string throws a TypeError: a symbol, or an
\* object that has no toString, such as Object.create(null).
SymbolValue     == "Symbol()"
\* The function () {} that die passes to _validateArguments.
EmptyFunction   == "function () {}"
\* A node that is not an element (nodeType 3).
TextNode        == "#text"

typeof(v) ==
    IF v \in StringValues THEN "string"
    ELSE IF v \in FunctionValues \cup {EmptyFunction} THEN "function"
    ELSE IF v = SymbolValue THEN "symbol"
    ELSE "undefined"

SelectorArgs == StringValues \cup {UndefinedValue, SymbolValue}
CallbackArgs == FunctionValues \cup {UndefinedValue, SymbolValue}
\* What a caller may pass to enabled: an element, a text node, or nothing.
EnabledArgs  == Elements \cup {TextNode, UndefinedValue}
\* The options object { hardReturns: true, other: true }.
OptionArgs   == { {<< "hardReturns", TRUE >>, << "other", TRUE >>} }

\* The texts an element may hold: "" and "a\nb ".
Texts == { << >>, << 97, 10, 98, 32 >> }

\* The code units of the texts the counter is checked on: a, space, line
\* feed, carriage return, comma, semicolon, <, >, and the two halves of the
\* surrogate pair of U+1F600.
HighSurrogate == 55357
LowSurrogate  == 56832
Units == {97, 32, LF, CR, 44, 59, 60, 62, HighSurrogate, LowSurrogate}

\* The sequences over units of length at most max.
TextsOver(units, max) == UNION {[1 .. n -> units] : n \in 0 .. max}

\* "Hello, world!"
HelloWorld == << 72, 101, 108, 108, 111, 44, 32, 119, 111, 114, 108, 100, 33 >>

\* The texts the counter is checked on.
CountTexts ==
    TextsOver(Units, MaxLen)
        \cup TextsOver({HighSurrogate, LowSurrogate, 32}, MaxSurrogateLen)
        \cup TextsOver({97, 98, LF}, MaxBreakLen)
        \cup {HelloWorld}

\* The options objects: each of hardReturns and stripTags absent or true.
CountOptionArgs ==
    SUBSET {<< "hardReturns", TRUE >>, << "stripTags", TRUE >>}

\* document.querySelectorAll
querySelectorAll(selector) ==
    CASE selector = "#a"       -> << "a" >>
      [] selector = "#b"       -> << "b" >>
      [] selector = "textarea" -> DocumentElements
      [] OTHER                 -> << >>

\* _query
_query(selector) ==
    querySelectorAll(IF typeof(selector) = "string" THEN selector ELSE "smiley")

(***************************************************************************)
(* State.                                                                  *)
(***************************************************************************)
VARIABLES
    _liveElements,  \* the registry: a sequence of [element, handler]
    listeners,      \* per element, the handlers attached for _event, in order
    value,          \* per element, its current text
    console,        \* whether window.console.warn exists: it does in a browser
    pc,             \* "idle", or "callback" while a callback is running
    frame,          \* the operation that invoked the running callback
    fired,          \* the callback invocations of the current (last) call
    ret,            \* what the last call returned
    call,           \* the last call made by the page: its arguments
    lives,          \* per element, the callbacks bound by live since the last die
    episode         \* per element, the progress of a sequence live, die, input

vars == << _liveElements, listeners, value, console, pc, frame, fired, ret,
           call, lives, episode >>

NoHandler ==
    [id |-> 0, element |-> "none", callback |-> UndefinedValue,
     ops |-> _extendDefaults({})]

NoFrame ==
    [op |-> "none", elements |-> << >>, len |-> 0, callback |-> UndefinedValue,
     ops |-> _extendDefaults({}), handler |-> NoHandler, queue |-> << >>]

NoCall ==
    [op |-> "none", elements |-> << >>, valid |-> "valid", unbound |-> {},
     reentrant |-> FALSE]

NoEpisode == [phase |-> "none", callback |-> UndefinedValue]

Init ==
    /\ _liveElements = << >>
    /\ listeners = [e \in Elements |-> << >>]
    /\ value \in [Elements -> Texts]
    /\ console = TRUE
    /\ pc = "idle"
    /\ frame = NoFrame
    /\ fired = << >>
    /\ ret = "none"
    /\ call = NoCall
    /\ lives = [e \in Elements |-> << >>]
    /\ episode = [e \in Elements |-> NoEpisode]

(***************************************************************************)
(* Helpers of the registry.                                                *)
(***************************************************************************)
Range(s) == {s[i] : i \in 1 .. Len(s)}

HasBinding(live, element) ==
    \E i \in 1 .. Len(live) : live[i].element = element

\* _validateArguments: "valid", "invalid", or "throw" when the concatenation
\* that builds a warning cannot convert the argument to a string.
_validateArguments(selector, elements, callback) ==
    LET selectorValid == typeof(selector) = "string"
        elementsValid == Len(elements) > 0
        callbackValid == typeof(callback) = "function"
    IN IF /\ console
          /\ \/ ~selectorValid /\ typeof(selector) = "symbol"
             \/ ~callbackValid /\ typeof(callback) = "symbol"
       THEN "throw"
       ELSE IF selectorValid /\ elementsValid /\ callbackValid
            THEN "valid"
            ELSE "invalid"

\* _loop visits which[len - 1] down to which[0]: the first index visited
\* (counted from 1) and the one visited after len.
_loopFirst(which) == Len(which)
_loopNext(len) == len - 1

\* element.nodeType: 1 for an element, 3 for a text node, undefined otherwise.
nodeType(v) ==
    IF v \in Elements THEN 1
    ELSE IF v = TextNode THEN 3
    ELSE UndefinedValue

\* The loop of enabled with the flag assigned on every visit:
\* isEnabled = live.element === element.
RECURSIVE enabledLoop_Overwrite(_, _, _, _)
enabledLoop_Overwrite(live, len, element, isEnabled) ==
    IF len = 0 THEN isEnabled
    ELSE enabledLoop_Overwrite(live, _loopNext(len), element,
                               live[len].element = element)

\* Countable.enabled: the _loop over _liveElements, which sets isEnabled when
\* it visits a Binding of element.
RECURSIVE enabledLoop(_, _, _, _)
enabledLoop(live, len, element, isEnabled) ==
    IF len = 0 THEN isEnabled
    ELSE enabledLoop(live, _loopNext(len), element,
                     IF live[len].element = element THEN TRUE ELSE isEnabled)

\* Countable.enabled
enabled(element) ==
    IF element # UndefinedValue /\ nodeType(element) = 1
    THEN enabledLoop(_liveElements, _loopFirst(_liveElements), element, FALSE)
    ELSE FALSE

\* The handlers some object of the program still refers to.
UsedIds ==
    {_liveElements[i].handler.id : i \in 1 .. Len(_liveElements)}
        \cup UNION {{h.id : h \in Range(listeners[e])} : e \in Elements}
        \cup {h.id : h \in Range(frame.queue)}
        \cup {frame.handler.id}

\* The identity of a newly created handler closure.
FreshId == CHOOSE n \in 1 .. MaxHandlers + 1 :
              /\ n \notin UsedIds
              /\ \A m \in 1 .. n - 1 : m \in UsedIds

\* handler(): the callback is called with the element as this and the count of
\* its current text.
Invocation(handler, val) ==
    [callback |-> handler.callback,
     this     |-> handler.element,
     arg      |-> _count(val[handler.element], handler.ops)]

\* bind: _liveElements.push({ element: element, handler: handler })
bindPush(live, element, handler) ==
    Append(live, [element |-> element, handler |-> handler])

\* bind without the call handler().
bindFire_NoInitialFire(log, handler, val) == log

\* bind: handler()
bindFire(log, handler, val) == Append(log, Invocation(handler, val))

\* element.addEventListener(_event, handler, false)
addEventListener(attached, handler) ==
    IF handler \in Range(attached) THEN attached ELSE Append(attached, handler)

\* A removeEventListener that detaches nothing (as when it is given another
\* function object than the one that was attached).
removeEventListener_None(attached, handler) == attached

\* element.removeEventListener(_event, handler, false)
RECURSIVE removeEventListener(_, _)
removeEventListener(attached, handler) ==
    IF attached = << >> THEN << >>
    ELSE IF Head(attached) = handler THEN Tail(attached)
         ELSE << Head(attached) >> \o removeEventListener(Tail(attached), handler)

\* _liveElements.splice(index, 1)
splice(live, index) ==
    SubSeq(live, 1, index - 1) \o SubSeq(live, index + 1, Len(live))

\* die without the test of liveElement: the last entry of the registry is
\* taken when the element has none.
dieElement_NoGuard(st, element) ==
    IF st.live = << >> THEN st
    ELSE LET index == IF HasBinding(st.live, element)
                      THEN CHOOSE i \in 1 .. Len(st.live) :
                              /\ st.live[i].element = element
                              /\ \A j \in 1 .. i - 1 : st.live[j].element # element
                      ELSE Len(st.live)
             liveElement == st.live[index]
         IN [live      |-> splice(st.live, index),
             listeners |-> [st.listeners EXCEPT ![liveElement.element] =
                               removeEventListener(@, liveElement.handler)]]

\* die, for one element: st is [live, listeners].  The inner _loop runs from
\* the end of _liveElements, so liveElement ends as the first entry for element.
dieElement(st, element) ==
    IF ~HasBinding(st.live, element) THEN st
    ELSE LET index == CHOOSE i \in 1 .. Len(st.live) :
                         /\ st.live[i].element = element
                         /\ \A j \in 1 .. i - 1 : st.live[j].element # element
             liveElement == st.live[index]
         IN [live      |-> splice(st.live, index),
             listeners |-> [st.listeners EXCEPT ![element] =
                               removeEventListener(@, liveElement.handler)]]

RECURSIVE dieLoop(_, _, _)
dieLoop(st, elements, len) ==
    IF len = 0 THEN st
    ELSE dieLoop(dieElement(st, elements[len]), elements, _loopNext(len))

\* Countable.die: its effect on the registry and the listeners, and its result.
die(selector) ==
    LET elements == _query(selector)
        v  == _validateArguments(selector, elements, EmptyFunction)
        st == [live |-> _liveElements, listeners |-> listeners]
    IN IF v = "throw" THEN [st |-> st, ret |-> "throw"]
       ELSE IF v = "invalid" THEN [st |-> st, ret |-> "undefined"]
       ELSE [st  |-> dieLoop(st, elements, _loopFirst(elements)),
             ret |-> "Countable"]

(***************************************************************************)
(* What the bookkeeping variables record.                                  *)
(***************************************************************************)
Resolved(selector) == Range(_query(selector))

\* A call op on elements whose validation ended as valid; for a call of live
\* or die, unbound holds the elements that have no Binding when it is made.
NewCall(op, elements, valid) ==
    [op |-> op, elements |-> elements, valid |-> valid,
     unbound |-> IF op \in {"live", "die"} /\ valid = "valid"
                 THEN {e \in Range(elements) : ~HasBinding(_liveElements, e)}
                 ELSE {},
     reentrant |-> FALSE]

\* A die that ran for the elements in dead.
AfterDie(dead) ==
    /\ lives' = [e \in Elements |-> IF e \in dead THEN << >> ELSE lives[e]]
    /\ episode' = [e \in Elements |->
                      IF e \in dead /\ episode[e].phase = "live"
                      THEN [episode[e] EXCEPT !.phase = "died"]
                      ELSE IF e \in dead /\ episode[e].phase = "event"
                           THEN [episode[e] EXCEPT !.phase = "died"]
                           ELSE episode[e]]

(***************************************************************************)
(* Countable.live.                                                         *)
(***************************************************************************)
\* bind(elements[len]) up to the call of the callback: the Binding is pushed
\* and the handler is fired.
Bind(elements, len, callback, ops, log) ==
    LET element == elements[len]
        handler == [id |-> FreshId, element |-> element,
                    callback |-> callback, ops |-> ops]
    IN /\ _liveElements' = bindPush(_liveElements, element, handler)
       /\ fired' = bindFire(log, handler, value)
       /\ frame' = [op |-> "live", elements |-> elements, len |-> len,
                    callback |-> callback, ops |-> ops, handler |-> handler,
                    queue |-> << >>]
       /\ pc' = "callback"
       /\ ret' = "pending"
       /\ lives' = [lives EXCEPT ![element] = Append(@, callback)]

\* A call of live: validation, then the first bind up to its callback.
LiveCall(selector, callback, options) ==
    /\ pc = "idle"
    /\ LET elements == _query(selector)
           ops      == _extendDefaults(options)
           v        == _validateArguments(selector, elements, callback)
       IN /\ call' = NewCall("live", elements, v)
          /\ IF v # "valid"
             THEN /\ ret' = (IF v = "throw" THEN "throw" ELSE "undefined")
                  /\ fired' = << >>
                  /\ UNCHANGED << _liveElements, listeners, pc, frame, lives,
                                  episode >>
             ELSE /\ Cardinality(UsedIds \ {0}) + Len(elements) <= MaxHandlers
                  /\ Bind(elements, _loopFirst(elements), callback, ops, << >>)
                  /\ episode' = [e \in Elements |->
                                    IF e \in Range(elements) THEN NoEpisode
                                    ELSE episode[e]]
                  /\ UNCHANGED listeners
    /\ UNCHANGED << value, console >>

\* The callback fired by bind returns: the handler is attached, and live goes
\* on to the next element or returns.
BindReturn ==
    /\ pc = "callback"
    /\ frame.op = "live"
    /\ listeners' = [listeners EXCEPT ![frame.elements[frame.len]] =
                        addEventListener(@, frame.handler)]
    /\ IF _loopNext(frame.len) > 0
       THEN /\ Bind(frame.elements, _loopNext(frame.len), frame.callback,
                    frame.ops, fired)
            /\ UNCHANGED episode
       ELSE /\ pc' = "idle"
            /\ ret' = "Countable"
            /\ frame' = NoFrame
            /\ episode' = [e \in Elements |->
                              IF e \in call.unbound
                              THEN [phase |-> "live", callback |-> frame.callback]
                              ELSE episode[e]]
            /\ UNCHANGED << _liveElements, fired, lives >>
    /\ UNCHANGED << value, console, call >>

(***************************************************************************)
(* Countable.die.                                                          *)
(***************************************************************************)
Die(selector) ==
    /\ pc = "idle"
    /\ LET r == die(selector)
       IN /\ call' = NewCall("die", _query(selector),
                             IF r.ret = "Countable" THEN "valid"
                             ELSE IF r.ret = "throw" THEN "throw" ELSE "invalid")
          /\ _liveElements' = r.st.live
          /\ listeners' = r.st.listeners
          /\ ret' = r.ret
          /\ AfterDie(IF r.ret = "Countable" THEN Resolved(selector) ELSE {})
    /\ fired' = << >>
    /\ UNCHANGED << value, console, pc, frame >>

\* The running callback calls Countable.die.
CallbackDie(selector) ==
    /\ pc = "callback"
    /\ typeof(selector) = "string"
    /\ LET r == die(selector)
       IN /\ _liveElements' = r.st.live
          /\ listeners' = r.st.listeners
          /\ AfterDie(IF r.ret = "Countable" THEN Resolved(selector) ELSE {})
    /\ call' = [call EXCEPT !.reentrant = TRUE]
    /\ UNCHANGED << value, console, pc, frame, fired, ret >>

(***************************************************************************)
(* Countable.once.                                                         *)
(***************************************************************************)
\* once written as bind is: the element is pushed on the registry too.
Once_Binding(elements, len, callback, ops, log) ==
    /\ fired' = Append(log, Invocation([id |-> 0, element |-> elements[len],
                                        callback |-> callback, ops |-> ops],
                                       value))
    /\ frame' = [op |-> "once", elements |-> elements, len |-> len,
                 callback |-> callback, ops |-> ops, handler |-> NoHandler,
                 queue |-> << >>]
    /\ pc' = "callback"
    /\ ret' = "pending"
    /\ _liveElements' = bindPush(_liveElements, elements[len], NoHandler)
    /\ UNCHANGED listeners

\* The callback is called for elements[len].
Once(elements, len, callback, ops, log) ==
    /\ fired' = Append(log, Invocation([id |-> 0, element |-> elements[len],
                                        callback |-> callback, ops |-> ops],
                                       value))
    /\ frame' = [op |-> "once", elements |-> elements, len |-> len,
                 callback |-> callback, ops |-> ops, handler |-> NoHandler,
                 queue |-> << >>]
    /\ pc' = "callback"
    /\ ret' = "pending"
    /\ UNCHANGED << _liveElements, listeners >>

OnceCall(selector, callback, options) ==
    /\ pc = "idle"
    /\ LET elements == _query(selector)
           v        == _validateArguments(selector, elements, callback)
       IN /\ call' = NewCall("once", elements, v)
          /\ IF v # "valid"
             THEN /\ ret' = (IF v = "throw" THEN "throw" ELSE "undefined")
                  /\ fired' = << >>
                  /\ UNCHANGED << _liveElements, listeners, pc, frame >>
             ELSE Once(elements, _loopFirst(elements), callback,
                       _extendDefaults(options), << >>)
    /\ UNCHANGED << value, console, lives, episode >>

OnceReturn ==
    /\ pc = "callback"
    /\ frame.op = "once"
    /\ IF _loopNext(frame.len) > 0
       THEN Once(frame.elements, _loopNext(frame.len), frame.callback,
                 frame.ops, fired)
       ELSE /\ pc' = "idle"
            /\ ret' = "Countable"
            /\ frame' = NoFrame
            /\ UNCHANGED << _liveElements, listeners, fired >>
    /\ UNCHANGED << value, console, call, lives, episode >>

(***************************************************************************)
(* The host page: the user edits an element and the input event is        *)
(* dispatched to the handlers attached when the dispatch starts; a handler *)
(* removed before its turn is not called.                                  *)
(***************************************************************************)
\* The first position after len of a handler of queue still attached, or 0.
NextAttached(queue, len, attached) ==
    IF \E j \in len + 1 .. Len(queue) : queue[j] \in Range(attached)
    THEN CHOOSE j \in len + 1 .. Len(queue) :
            /\ queue[j] \in Range(attached)
            /\ \A k \in len + 1 .. j - 1 : queue[k] \notin Range(attached)
    ELSE 0

Dispatch(element, queue, len, log, val) ==
    LET next == NextAttached(queue, len, listeners[element])
    IN IF next = 0
       THEN /\ pc' = "idle"
            /\ frame' = NoFrame
            /\ fired' = log
       ELSE /\ pc' = "callback"
            /\ frame' = [op |-> "event", elements |-> << element >>,
                         len |-> next, callback |-> queue[next].callback,
                         ops |-> queue[next].ops, handler |-> queue[next],
                         queue |-> queue]
            /\ fired' = Append(log, Invocation(queue[next], val))

Input(element, text) ==
    /\ pc = "idle"
    /\ call' = NewCall("input", << element >>, "valid")
    /\ value' = [value EXCEPT ![element] = text]
    /\ Dispatch(element, listeners[element], 0, << >>, value')
    /\ ret' = "none"
    /\ episode' = [episode EXCEPT ![element] =
                      IF @.phase = "died" THEN [@ EXCEPT !.phase = "event"] ELSE @]
    /\ UNCHANGED << _liveElements, listeners, console, lives >>

HandlerReturn ==
    /\ pc = "callback"
    /\ frame.op = "event"
    /\ Dispatch(frame.elements[1], frame.queue, frame.len, fired, value)
    /\ UNCHANGED << _liveElements, listeners, value, console, ret, call,
                    lives, episode >>

(***************************************************************************)
(* The specification.                                                      *)
(***************************************************************************)
Next ==
    \/ \E selector \in SelectorArgs, callback \in CallbackArgs,
          options \in OptionArgs : LiveCall(selector, callback, options)
    \/ BindReturn
    \/ \E selector \in SelectorArgs : Die(selector)
    \/ \E selector \in StringValues \ {".none"} : CallbackDie(selector)
    \/ \E selector \in SelectorArgs, callback \in CallbackArgs,
          options \in OptionArgs : OnceCall(selector, callback, options)
    \/ OnceReturn
    \/ \E element \in Elements, text \in Texts : Input(element, text)
    \/ HandlerReturn

Spec == Init /\ [][Next]_vars

(***************************************************************************)
(* The page without reentrant calls: no callback calls back into Countable. *)
(***************************************************************************)
SequentialNext ==
    \/ \E selector \in SelectorArgs, callback \in CallbackArgs,
          options \in OptionArgs : LiveCall(selector, callback, options)
    \/ BindReturn
    \/ \E selector \in SelectorArgs : Die(selector)
    \/ \E selector \in SelectorArgs, callback \in CallbackArgs,
          options \in OptionArgs : OnceCall(selector, callback, options)
    \/ OnceReturn
    \/ \E element \in Elements, text \in Texts : Input(element, text)
    \/ HandlerReturn

SequentialSpec == Init /\ [][SequentialNext]_vars

(***************************************************************************)
(* The counter on its own: the element a holds any of the texts of         *)
(* CountTexts and the page calls Countable.once on it with any options.    *)
(***************************************************************************)
CountInit ==
    /\ _liveElements = << >>
    /\ listeners = [e \in Elements |-> << >>]
    /\ value \in {[e \in Elements |-> IF e = "a" THEN t ELSE << >>] :
                     t \in CountTexts}
    /\ console = TRUE
    /\ pc = "idle"
    /\ frame = NoFrame
    /\ fired = << >>
    /\ ret = "none"
    /\ call = NoCall
    /\ lives = [e \in Elements |-> << >>]
    /\ episode = [e \in Elements |-> NoEpisode]

CountNext ==
    \/ \E callback \in FunctionValues, options \in CountOptionArgs :
          OnceCall("#a", callback, options)
    \/ OnceReturn

CountSpec == CountInit /\ [][CountNext]_vars

(***************************************************************************)
(* Properties.                                                             *)
(***************************************************************************)
Bindings(element) ==
    {i \in 1 .. Len(_liveElements) : _liveElements[i].element = element}

\* The invocations in log of callback with element as this.
Invocations(log, element, callback) ==
    {i \in 1 .. Len(log) : log[i].this = element /\ log[i].callback = callback}

\* The last call, an input event on element, has been dispatched completely.
InputDone(element) ==
    /\ pc = "idle"
    /\ call.op = "input"
    /\ call.elements = << element >>

\* The last call, a valid call of op, has returned.
Returned(op) ==
    /\ pc = "idle"
    /\ call.op = op
    /\ call.valid = "valid"
    /\ ret = "Countable"

\* C1: in every reachable state the registry holds at most one Binding per
\* surface (a live on a bound surface replaces the earlier Binding).
C1_AtMostOneBindingPerSurface ==
    \A e \in Elements : Cardinality(Bindings(e)) <= 1

\* C2: once live has bound a surface twice with the same callback and no die
\* in between, a change event on the surface invokes the callback exactly once.
C2_LiveTwiceFiresOnce ==
    \A e \in Elements : \A cb \in FunctionValues :
        (/\ InputDone(e)
         /\ Cardinality({i \in 1 .. Len(lives[e]) : lives[e][i] = cb}) >= 2)
            => Cardinality(Invocations(fired, e, cb)) = 1

\* C3: for a surface that had no Binding, after live has returned and die has
\* run on it, enabled(surface) is false and a change event dispatched on the
\* surface after that does not invoke the callback.
C3_LiveThenDieUnbinds ==
    \A e \in Elements :
        episode[e].phase \in {"died", "event"}
            => /\ ~enabled(e)
               /\ (/\ episode[e].phase = "event"
                   /\ call.op = "input"
                   /\ call.elements = << e >>)
                      => Invocations(fired, e, episode[e].callback) = {}

\* C4: when a die call has returned, each surface it resolved has no Binding,
\* is not enabled and has no handler attached.
C4_DieLeavesUnbound ==
    Returned("die")
        => \A e \in Range(call.elements) :
               /\ Bindings(e) = {}
               /\ ~enabled(e)
               /\ listeners[e] = << >>

\* A call of once, or the return of a callback to it.
OnceStep ==
    /\ call'.op = "once"
    /\ \/ \E selector \in SelectorArgs, callback \in CallbackArgs,
             options \in OptionArgs : OnceCall(selector, callback, options)
       \/ OnceReturn

\* C5: a step of once leaves the registry, the attached handlers and every
\* enabled(surface) as they are, and when once returns the callback has been
\* invoked exactly once for each resolved surface.
C5_OnceLeavesRegistry ==
    [][OnceStep =>
          /\ _liveElements' = _liveElements
          /\ listeners' = listeners
          /\ \A e \in Elements : enabled(e)' = enabled(e)
          /\ pc' = "idle" /\ call'.valid = "valid"
                => /\ Len(fired') = Len(call'.elements)
                   /\ \A e \in Range(call'.elements) :
                         Cardinality(Invocations(fired', e, frame.callback)) = 1
      ]_vars

\* once has returned from both surfaces, one enabled and one not.
C5_Witness ==
    /\ Returned("once")
    /\ Len(fired) = 2
    /\ enabled("a")
    /\ ~enabled("b")

\* The arguments fail the validation of live and once.
InvalidArguments(selector, callback) ==
    \/ typeof(selector) # "string"
    \/ _query(selector) = << >>
    \/ typeof(callback) # "function"

\* A call of live, once or die whose arguments fail the validation.
InvalidCall ==
    \/ \E selector \in SelectorArgs, callback \in CallbackArgs,
          options \in OptionArgs :
          /\ InvalidArguments(selector, callback)
          /\ \/ LiveCall(selector, callback, options)
             \/ OnceCall(selector, callback, options)
    \/ \E selector \in SelectorArgs :
          /\ InvalidArguments(selector, EmptyFunction)
          /\ Die(selector)

InvalidCallStep ==
    /\ pc = "idle"
    /\ call'.valid # "valid"
    /\ InvalidCall

\* C6: a call whose arguments fail the validation raises no exception, invokes
\* no callback and leaves the registry and the attached handlers unchanged.
C6_InvalidCallIsSilent ==
    [][InvalidCallStep =>
          /\ ret' # "throw"
          /\ fired' = << >>
          /\ _liveElements' = _liveElements
          /\ listeners' = listeners
      ]_vars

\* C7: a call whose validation fails returns the Countable object, as a
\* successful call does.
C7_InvalidCallReturnsCountable ==
    (/\ pc = "idle"
     /\ call.op \in {"live", "die", "once"}
     /\ call.valid = "invalid")
        => ret = "Countable"

\* C8: a die whose surfaces have no Binding raises no exception and leaves the
\* registry and the attached handlers unchanged; whatever else a die resolves,
\* a surface without a Binding keeps its handlers.
C8_DieUnboundIsNoOp ==
    [][\A selector \in StringValues :
          (/\ \/ pc = "idle" /\ call'.op = "die"
              \/ pc = "callback" /\ frame' = frame /\ fired' = fired
           /\ Die(selector) \/ CallbackDie(selector))
              => /\ \A e \in Resolved(selector) :
                       ~HasBinding(_liveElements, e)
                           => listeners'[e] = listeners[e]
                 /\ (/\ Resolved(selector) # {}
                     /\ \A e \in Resolved(selector) :
                           ~HasBinding(_liveElements, e))
                        => /\ _liveElements' = _liveElements
                           /\ listeners' = listeners
                           /\ Die(selector) => ret' = "Countable"
      ]_vars

\* die has returned from a surface without a Binding while the registry holds
\* the Binding of another surface.
C8_Witness ==
    /\ Returned("die")
    /\ call.unbound = Range(call.elements)
    /\ call.elements # << >>
    /\ _liveElements # << >>

\* C9: live fires the handler of each resolved surface once, before the
\* handler is attached and before live returns, with the surface as this and
\* the count of its current text as argument.
C9_LiveFiresOnceFirst ==
    /\ (pc = "callback" /\ frame.op = "live")
          => LET element == frame.elements[frame.len]
             IN /\ Len(fired) = Len(frame.elements) - frame.len + 1
                /\ fired[Len(fired)] =
                       [callback |-> frame.callback,
                        this     |-> element,
                        arg      |-> _count(value[element], frame.ops)]
                /\ frame.handler \notin Range(listeners[element])
    /\ Returned("live")
          => /\ Len(fired) = Len(call.elements)
             /\ \A e \in Range(call.elements) :
                   \E cb \in FunctionValues :
                      Cardinality(Invocations(fired, e, cb)) = 1

\* live has returned from two surfaces.
C9_Witness ==
    /\ Returned("live")
    /\ Len(fired) = 2
    /\ fired[1].this # fired[2].this

\* C10: when a callback has called die while live was firing it, then once
\* live has returned a handler is attached to a surface of the call only if
\* the registry holds a Binding for it.
C10_ReentrantDieConsistent ==
    (Returned("live") /\ call.reentrant)
        => \A e \in Range(call.elements) :
               listeners[e] # << >> => enabled(e)

\* C11: in every reachable state enabled(x) is true exactly when the registry
\* holds a Binding whose surface is x; for an absent argument and for a node
\* that is not an element it is false.
C11_EnabledIffBinding ==
    \A x \in EnabledArgs :
        /\ enabled(x) \in BOOLEAN
        /\ enabled(x) <=> (x \in Elements /\ Bindings(x) # {})
        /\ x \notin Elements => ~enabled(x)

\* The registry holds the Bindings of two surfaces: enabled is true for the
\* surface whose Binding is not the first of the registry.
C11_Witness ==
    /\ pc = "idle"
    /\ Len(_liveElements) = 2
    /\ _liveElements[1].element # _liveElements[2].element
    /\ enabled(_liveElements[2].element)
    /\ ~enabled(TextNode)

\* The callback of once is running: it has been given the count of the text.
Counted == pc = "callback" /\ frame.op = "once"

\* The text that was counted, the options in effect and the result.
CountedText    == value[frame.elements[frame.len]]
CountedOptions == frame.ops
CountResult    == fired[Len(fired)].arg

\* C12: whatever the text and the options, the result has
\* characters <= charactersAndSpaces (the field all).
C12_CharactersAtMostAll ==
    Counted => CountResult.characters <= CountResult.all

\* C13: whatever the text and the options, characters equals
\* charactersAndSpaces exactly when the text contains no whitespace character.
C13_EqualIffNoWhitespace ==
    Counted =>
        ((CountResult.characters = CountResult.all)
            <=> (\A i \in 1 .. Len(CountedText) : ~IsSpace(CountedText[i])))

\* The texts a, line feed, line feed, b and a, line feed, b.
TwoBreaks == << 97, LF, LF, 98 >>
OneBreak  == << 97, LF, 98 >>

\* C14: paragraphs is 2 for a, line feed, line feed, b with hardReturns false,
\* 1 for the same text with hardReturns true, and 1 for a, line feed, b with
\* hardReturns true.
C14_ParagraphExamples ==
    Counted =>
        /\ (CountedText = TwoBreaks /\ ~CountedOptions.hardReturns)
               => CountResult.paragraphs = 2
        /\ (CountedText = TwoBreaks /\ CountedOptions.hardReturns)
               => CountResult.paragraphs = 1
        /\ (CountedText = OneBreak /\ CountedOptions.hardReturns)
               => CountResult.paragraphs = 1

\* C14 as amended: paragraphs is 2 for a, line feed, line feed, b with
\* hardReturns false and with hardReturns true (two line feeds are a hard
\* return), and 1 for a, line feed, b with hardReturns true.
C14_ParagraphExamplesAmended ==
    Counted =>
        /\ (CountedText = TwoBreaks /\ ~CountedOptions.hardReturns)
               => CountResult.paragraphs = 2
        /\ (CountedText = TwoBreaks /\ CountedOptions.hardReturns)
               => CountResult.paragraphs = 2
        /\ (CountedText = OneBreak /\ CountedOptions.hardReturns)
               => CountResult.paragraphs = 1

\* The text a, line feed, line feed, b has been counted with hardReturns.
C14_Witness ==
    /\ Counted
    /\ CountedText = TwoBreaks
    /\ CountedOptions.hardReturns
    /\ CountResult.paragraphs = 2

\* The text the counts are taken of: the text of the element, without its tags
\* when stripTags is set.
CountedOriginal ==
    IF CountedOptions.stripTags THEN stripTags(CountedText) ELSE CountedText

\* s without its leading and trailing whitespace: from the first to the last
\* unit that is no whitespace.
NonSpaces(s) == {i \in 1 .. Len(s) : ~IsSpace(s[i])}

Trimmed(s) ==
    IF NonSpaces(s) = {} THEN << >>
    ELSE LET first == CHOOSE i \in NonSpaces(s) : \A j \in NonSpaces(s) : i <= j
             last  == CHOOSE i \in NonSpaces(s) : \A j \in NonSpaces(s) : i >= j
         IN [k \in 1 .. last - first + 1 |-> s[first + k - 1]]

\* The paragraph boundaries of s: the positions where a maximal run of line
\* feeds starts that is at least min long.
Boundaries(s, min) ==
    {i \in 1 .. Len(s) :
        /\ s[i] = LF
        /\ i = 1 \/ s[i - 1] # LF
        /\ \A j \in i .. i + min - 1 : j <= Len(s) /\ s[j] = LF}

\* C15: when the trimmed text is not empty, paragraphs is 1 plus the number of
\* maximal runs of line feeds in it that are at least 1 long (hardReturns
\* false) or at least 2 long (hardReturns true); when it is empty,
\* paragraphs is 0.
C15_ParagraphsCountBoundaries ==
    Counted =>
        LET trimmed == Trimmed(CountedOriginal)
        IN CountResult.paragraphs =
               IF trimmed = << >> THEN 0
               ELSE 1 + Cardinality(Boundaries(trimmed,
                                               IF CountedOptions.hardReturns
                                               THEN 2 ELSE 1))

\* A text with a single line feed and a run of two has been counted with
\* hardReturns: only the run of two is a boundary.
C15_Witness ==
    /\ Counted
    /\ CountedOptions.hardReturns
    /\ CountedText = << 97, LF, 98, LF, LF, 97 >>
    /\ CountResult.paragraphs = 2

\* Standard UTF-16 decoding: a high surrogate (D800..DBFF) immediately followed
\* by a low surrogate (DC00..DFFF) is one code point, every other unit is one.
IsHighSurrogate(c) == c \in 55296 .. 56319
IsLowSurrogate(c)  == c \in 56320 .. 57343

CodePoints(s) ==
    Len(s) - Cardinality({i \in 1 .. Len(s) - 1 :
                             IsHighSurrogate(s[i]) /\ IsLowSurrogate(s[i + 1])})

\* C16: the code points the counter counts are those of standard UTF-16
\* decoding: all is the number of code points of the text without its line
\* terminators, and characters that of the text without its whitespace; an
\* unpaired surrogate half counts as one and leaves its neighbour alone.
C16_CountsCodePoints ==
    Counted =>
        /\ CountResult.all = CodePoints(Remove(CountedOriginal, {LF, CR}))
        /\ CountResult.characters =
               CodePoints(Remove(CountedOriginal, WhiteSpaceUnits))

\* The punctuation the claim lists: apostrophe, quotation mark, colon, comma,
\* period, question and exclamation marks with their inverted forms, hyphen.
ListedPunctuation == {39, 34, 58, 44, 46, 63, 191, 33, 161, 45}

\* The words of s once the units of punctuation are taken out: the positions
\* of the units that remain, are no whitespace, and are the first to remain or
\* come next after a whitespace that remains.
WordStarts(s, punctuation) ==
    LET kept == {i \in 1 .. Len(s) : s[i] \notin punctuation}
    IN {i \in kept :
           /\ ~IsSpace(s[i])
           /\ \A j \in kept :
                  (j < i /\ \A k \in kept : ~(j < k /\ k < i)) => IsSpace(s[j])}

\* C17: when the trimmed text is not empty, words is the number of maximal runs
\* of non-whitespace that remain once exactly the listed punctuation is
\* removed from it (no other character is removed), and Hello, world! has 2
\* words.
C17_WordsWithoutListedPunctuation ==
    Counted =>
        /\ CountResult.words =
               Cardinality(WordStarts(Trimmed(CountedOriginal), ListedPunctuation))
        /\ CountedText = HelloWorld => CountResult.words = 2

\* C17 as amended: the punctuation removed is the listed set and the
\* semicolon.
C17_WordsWithoutPunctuation ==
    Counted =>
        /\ CountResult.words =
               Cardinality(WordStarts(Trimmed(CountedOriginal),
                                      ListedPunctuation \cup {59}))
        /\ CountedText = HelloWorld => CountResult.words = 2

\* Hello, world! has been counted.
C17_Witness ==
    /\ Counted
    /\ CountedText = HelloWorld
    /\ CountResult.words = 2

\* C18: for a text that is whitespace only, the empty text included, and any
\* options, paragraphs, words and characters are 0 and charactersAndSpaces is
\* the number of units of the untrimmed text that are neither carriage return
\* nor line feed (each whitespace unit is one code point); for the empty text
\* all four are 0.
C18_WhitespaceOnly ==
    (Counted /\ \A i \in 1 .. Len(CountedText) : IsSpace(CountedText[i]))
        => /\ CountResult.paragraphs = 0
           /\ CountResult.words = 0
           /\ CountResult.characters = 0
           /\ CountResult.all =
                  Cardinality({i \in 1 .. Len(CountedText) :
                                  CountedText[i] \notin {LF, CR}})
           /\ CountedText = << >> => CountResult.all = 0

\* A text of two spaces around a line feed has been counted: all is 2.
C18_Witness ==
    /\ Counted
    /\ CountedText = << 32, LF, 32 >>
    /\ CountResult.all = 2
    /\ CountResult.characters = 0

\* The handlers the registry records for element.
BoundHandlers(element) ==
    {_liveElements[i].handler : i \in Bindings(element)}

\* C19: without reentrant calls, whenever no live is in progress the handlers
\* attached to each surface are exactly the handlers of the Bindings the
\* registry holds for it, each attached once.
C19_AttachedIffBound ==
    (pc = "idle" \/ frame.op # "live")
        => \A e \in Elements :
               /\ Range(listeners[e]) = BoundHandlers(e)
               /\ Len(listeners[e]) = Cardinality(Bindings(e))

\* die has returned from surface a after a live on both surfaces: a has no
\* Binding and no handler, b has one of each.
C19_Witness ==
    /\ Returned("die")
    /\ call.elements = << "a" >>
    /\ listeners["a"] = << >>
    /\ Len(listeners["b"]) = 1
    /\ Len(_liveElements) = 1
    /\ _liveElements[1].element = "b"

\* The Bindings of element in live, in the order of the registry.
BindingsOf(live, element) == SelectSeq(live, LAMBDA b : b.element = element)

\* A step leaves the surfaces outside resolved as they are: their Bindings,
\* their attached handlers and their enabled result.
OthersUnchanged(resolved) ==
    \A e \in Elements \ resolved :
        /\ BindingsOf(_liveElements', e) = BindingsOf(_liveElements, e)
        /\ listeners'[e] = listeners[e]
        /\ enabled(e)' = enabled(e)

\* The Bindings a step removes from the registry, and the handlers it detaches
\* (as the Bindings they would make with their surface).
RemovedBindings == Range(_liveElements) \ Range(_liveElements')

DetachedHandlers ==
    UNION {{[element |-> e, handler |-> h] :
               h \in Range(listeners[e]) \ Range(listeners'[e])} :
           e \in Elements}

\* A step of live, die or once on selector: the call itself.
CallStep(selector) ==
    \/ /\ pc = "idle"
       /\ call'.op \in {"live", "once"}
       /\ \E callback \in CallbackArgs, options \in OptionArgs :
             \/ LiveCall(selector, callback, options)
             \/ OnceCall(selector, callback, options)
    \/ /\ pc = "idle"
       /\ call'.op = "die"
       /\ Die(selector)
    \/ /\ pc = "callback"
       /\ frame' = frame
       /\ CallbackDie(selector)

\* A step of die on selector.
DieStep(selector) ==
    \/ pc = "idle" /\ call'.op = "die" /\ Die(selector)
    \/ pc = "callback" /\ frame' = frame /\ CallbackDie(selector)

\* The return of a callback to the live or the once that called it.
ReturnStep ==
    /\ pc = "callback"
    /\ frame.op \in {"live", "once"}
    /\ BindReturn \/ OnceReturn

\* C20: a step of live, die or once on a selector changes the Bindings and
\* the attached handlers of the surfaces the selector resolves to only, every
\* other surface keeps its Bindings, its handlers and its enabled result; and
\* the Bindings a die removes are exactly those whose handler it detaches.
C20_OnlyResolvedSurfacesChange ==
    [][/\ \A selector \in SelectorArgs :
             /\ CallStep(selector) => OthersUnchanged(Resolved(selector))
             /\ DieStep(selector) => RemovedBindings = DetachedHandlers
       /\ ReturnStep => OthersUnchanged(Range(frame.elements))
      ]_vars

====
